---- MODULE Spec2Model ----
(***************************************************************************)
(* samples/main.c: two integer functions, local_f (a * 3) and global_f     *)
(* (a * 6), and main, which assigns a = 5 and b = 7, sets b = local_f(a),  *)
(* a = global_f(b) and returns a + b.                                      *)
(*                                                                         *)
(* int is the 32-bit two's-complement int of the build.  Signed overflow   *)
(* is undefined in C: an overflowing operation is modelled by the two      *)
(* outcomes a build produces, the wrapped value (plain code generation,    *)
(* -fwrapv) and a trap that ends the process (-ftrapv).                    *)
(*                                                                         *)
(* Every variable of an execution is indexed by the execution ("run"), so  *)
(* that one specification can hold one run of main and another two         *)
(* independent runs side by side.                                          *)
(***************************************************************************)
EXTENDS Integers, Sequences, FiniteSets, TLC

VARIABLES
    initA,  \* the literal main assigns to a (5 in the source)
    initB,  \* the literal main assigns to b (7 in the source)
    pc,     \* pc[r]: the statement run r executes next
    a,      \* a[r]: main's local a
    b,      \* b[r]: main's local b
    param,  \* param[r]: the parameter a of the callee's frame
    ra,     \* ra[r]: where the callee returns to
    rv,     \* rv[r]: the value the callee returned
    ret,    \* ret[r]: the value main returned
    calls   \* calls[r]: the calls made so far, in order, with argument and result

vars == <<initA, initB, pc, a, b, param, ra, rv, ret, calls>>

----------------------------------------------------------------------------
(* Bounds of the model. *)

\* Uninitialised locals hold -MaxGarbage..MaxGarbage or an extreme int.
MaxGarbage == 4

\* Inputs of the generalised runs are -MaxInput..MaxInput and the values
\* around every overflow threshold.
MaxInput == 8

----------------------------------------------------------------------------
(* int arithmetic. *)

IntMax == 2147483647

IntMin == -IntMax - 1

\* x * k is representable (k > 0), decided without forming the product.
InRangeMul(x, k) == (IntMin + k - 1) \div k <= x /\ x <= IntMax \div k

\* x + y is representable, decided without forming the sum.
InRangeAdd(x, y) ==
    IF y >= 0 THEN x <= IntMax - y ELSE x >= IntMin - y

\* x + y modulo 2^32, as a signed value.
WrapAdd(x, y) ==
    IF InRangeAdd(x, y) THEN x + y
    ELSE IF y >= 0 THEN (x - IntMax - 1) + (y - IntMax - 1)
    ELSE (x + IntMax + 1) + (y + IntMax + 1)

\* x * k modulo 2^32, as a signed value (k >= 1).
RECURSIVE WrapMul(_, _)
WrapMul(x, k) == IF k = 1 THEN x ELSE WrapAdd(WrapMul(x, k - 1), x)

Value(v) == [trap |-> FALSE, val |-> v]

Trap == [trap |-> TRUE, val |-> 0]

\* The outcomes of the C expression x * k.
IntMul(x, k) ==
    IF InRangeMul(x, k) THEN {Value(x * k)} ELSE {Value(WrapMul(x, k)), Trap}

\* The outcomes of the C expression x + y.
IntAdd(x, y) ==
    IF InRangeAdd(x, y) THEN {Value(x + y)} ELSE {Value(WrapAdd(x, y)), Trap}

----------------------------------------------------------------------------
(* The two functions. *)

local_f_times6(x) == IntMul(x, 6)

local_f_wide(x) == IntMul(x, 30000)

\* static int local_f(int a) { return a * 3; }
local_f(x) == IntMul(x, 3)

global_f_times3(x) == IntMul(x, 3)

\* extern int global_f(int a) { return a * 6; }
global_f(x) == IntMul(x, 6)

----------------------------------------------------------------------------
(* Initial states. *)

Garbage == (-MaxGarbage .. MaxGarbage) \cup {IntMin, IntMax}

\* The values around the thresholds at which x * k leaves int.
Edges(k) ==
    { IntMax \div k, IntMax \div k + 1,
      (IntMin + k - 1) \div k, (IntMin + k - 1) \div k - 1 }

Inputs ==
    (-MaxInput .. MaxInput) \cup {15, IntMin, IntMax}
        \cup Edges(3) \cup Edges(6) \cup Edges(18) \cup Edges(21)

One == {1}

Pair == {1, 2}

\* Runs of main entered with the literals la and lb: the locals a and b are
\* declared without an initialiser and hold indeterminate values.
MainEntry(Runs, LitsA, LitsB) ==
    /\ initA \in LitsA
    /\ initB \in LitsB
    /\ pc = [r \in Runs |-> "l13"]
    /\ a \in [Runs -> Garbage]
    /\ b \in [Runs -> Garbage]
    /\ param = [r \in Runs |-> 0]
    /\ ra = [r \in Runs |-> "none"]
    /\ rv = [r \in Runs |-> 0]
    /\ ret = [r \in Runs |-> 0]
    /\ calls = [r \in Runs |-> << >>]

\* One run of main as written.
Init == MainEntry(One, {5}, {7})

\* Two independent runs of main as written.
InitPair == MainEntry(Pair, {5}, {7})

\* One run of main with the two literals generalised.
InitGen == MainEntry(One, Inputs, Garbage)

\* One function entered from a caller outside main with argument x.
InitFn ==
    /\ initA = 5
    /\ initB = 7
    /\ pc \in [One -> {"local_f", "global_f"}]
    /\ a = [r \in One |-> 0]
    /\ b = [r \in One |-> 0]
    /\ param \in [One -> Inputs]
    /\ ra = [r \in One |-> "caller"]
    /\ rv = [r \in One |-> 0]
    /\ ret = [r \in One |-> 0]
    /\ calls = [r \in One |-> << >>]

----------------------------------------------------------------------------
(* The statements of main and the bodies of the functions. *)

Runs == DOMAIN pc

Stmt13Skip(r) ==
    /\ pc[r] = "l13"
    /\ pc' = [pc EXCEPT ![r] = "l14"]
    /\ UNCHANGED <<initA, initB, a, b, param, ra, rv, ret, calls>>

\* a = 5;
Stmt13(r) ==
    /\ pc[r] = "l13"
    /\ a' = [a EXCEPT ![r] = initA]
    /\ pc' = [pc EXCEPT ![r] = "l14"]
    /\ UNCHANGED <<initA, initB, b, param, ra, rv, ret, calls>>

\* b = 7;
Stmt14(r) ==
    /\ pc[r] = "l14"
    /\ b' = [b EXCEPT ![r] = initB]
    /\ pc' = [pc EXCEPT ![r] = "l16"]
    /\ UNCHANGED <<initA, initB, a, param, ra, rv, ret, calls>>

Call16PassB(r) ==
    /\ pc[r] = "l16"
    /\ param' = [param EXCEPT ![r] = b[r]]
    /\ ra' = [ra EXCEPT ![r] = "l16r"]
    /\ pc' = [pc EXCEPT ![r] = "local_f"]
    /\ UNCHANGED <<initA, initB, a, b, rv, ret, calls>>

\* b = local_f(a): the call, a passed by value.
Call16(r) ==
    /\ pc[r] = "l16"
    /\ param' = [param EXCEPT ![r] = a[r]]
    /\ ra' = [ra EXCEPT ![r] = "l16r"]
    /\ pc' = [pc EXCEPT ![r] = "local_f"]
    /\ UNCHANGED <<initA, initB, a, b, rv, ret, calls>>

\* A function body returning one of the outcomes outs to its caller, or
\* trapping.
Return(r, fn, outs) ==
    \E out \in outs :
        /\ pc' = [pc EXCEPT ![r] = IF out.trap THEN "trap" ELSE ra[r]]
        /\ rv' = [rv EXCEPT ![r] = IF out.trap THEN rv[r] ELSE out.val]
        /\ calls' = [calls EXCEPT ![r] =
                        Append(@, [fn |-> fn, arg |-> param[r],
                                   trap |-> out.trap, res |-> out.val])]
        /\ UNCHANGED <<initA, initB, a, b, param, ra, ret>>

\* return a * 3;
LocalFBody(r) ==
    /\ pc[r] = "local_f"
    /\ Return(r, "local_f", local_f(param[r]))

Ret16Clobber(r) ==
    /\ pc[r] = "l16r"
    /\ b' = [b EXCEPT ![r] = rv[r]]
    /\ a' = [a EXCEPT ![r] = rv[r]]
    /\ pc' = [pc EXCEPT ![r] = "l17"]
    /\ UNCHANGED <<initA, initB, param, ra, rv, ret, calls>>

\* b = local_f(a): the assignment of the result.
Ret16(r) ==
    /\ pc[r] = "l16r"
    /\ b' = [b EXCEPT ![r] = rv[r]]
    /\ pc' = [pc EXCEPT ![r] = "l17"]
    /\ UNCHANGED <<initA, initB, a, param, ra, rv, ret, calls>>

Call17PassA(r) ==
    /\ pc[r] = "l17"
    /\ param' = [param EXCEPT ![r] = a[r]]
    /\ ra' = [ra EXCEPT ![r] = "l17r"]
    /\ pc' = [pc EXCEPT ![r] = "global_f"]
    /\ UNCHANGED <<initA, initB, a, b, rv, ret, calls>>

\* a = global_f(b): the call, b passed by value.
Call17(r) ==
    /\ pc[r] = "l17"
    /\ param' = [param EXCEPT ![r] = b[r]]
    /\ ra' = [ra EXCEPT ![r] = "l17r"]
    /\ pc' = [pc EXCEPT ![r] = "global_f"]
    /\ UNCHANGED <<initA, initB, a, b, rv, ret, calls>>

\* return a * 6;
GlobalFBody(r) ==
    /\ pc[r] = "global_f"
    /\ Return(r, "global_f", global_f(param[r]))

\* a = global_f(b): the assignment of the result.
Ret17(r) ==
    /\ pc[r] = "l17r"
    /\ a' = [a EXCEPT ![r] = rv[r]]
    /\ pc' = [pc EXCEPT ![r] = "l19"]
    /\ UNCHANGED <<initA, initB, b, param, ra, rv, ret, calls>>

Stmt19Spin(r) ==
    /\ pc[r] = "l19"
    /\ UNCHANGED vars

Stmt19OnlyA(r) ==
    /\ pc[r] = "l19"
    /\ ret' = [ret EXCEPT ![r] = a[r]]
    /\ pc' = [pc EXCEPT ![r] = "done"]
    /\ UNCHANGED <<initA, initB, a, b, param, ra, rv, calls>>

\* return a + b;
Stmt19(r) ==
    /\ pc[r] = "l19"
    /\ \E out \in IntAdd(a[r], b[r]) :
        /\ pc' = [pc EXCEPT ![r] = IF out.trap THEN "trap" ELSE "done"]
        /\ ret' = [ret EXCEPT ![r] = IF out.trap THEN ret[r] ELSE out.val]
    /\ UNCHANGED <<initA, initB, a, b, param, ra, rv, calls>>

Next ==
    \/ \E r \in Runs : Stmt13(r)
    \/ \E r \in Runs : Stmt14(r)
    \/ \E r \in Runs : Call16(r)
    \/ \E r \in Runs : LocalFBody(r)
    \/ \E r \in Runs : Ret16(r)
    \/ \E r \in Runs : Call17(r)
    \/ \E r \in Runs : GlobalFBody(r)
    \/ \E r \in Runs : Ret17(r)
    \/ \E r \in Runs : Stmt19(r)

\* A function called on its own runs its body and returns.
NextFn ==
    \/ \E r \in Runs : LocalFBody(r)
    \/ \E r \in Runs : GlobalFBody(r)

Spec == Init /\ [][Next]_vars

\* main runs to its end: nothing suspends it.
FairSpec == Spec /\ WF_vars(Next)

SpecPair == InitPair /\ [][Next]_vars

SpecGen == InitGen /\ [][Next]_vars

SpecFn == InitFn /\ [][NextFn]_vars

----------------------------------------------------------------------------
(* Properties. *)

\* r is exactly k * x, stated without forming the product.
IsProduct(r, k, x) == r % k = 0 /\ r \div k = x

\* Run r called fn from outside main and the call has ended.
CalledAlone(r, fn) ==
    /\ ra[r] = "caller"
    /\ Len(calls[r]) = 1
    /\ calls[r][1].fn = fn

Int16(x) == -32768 <= x /\ x <= 32767

\* C1: a run of main from a = 5, b = 7 never traps and ends with b = 15,
\* a = 90 and the returned value 105.
C1_Returns105 ==
    \A r \in Runs :
        /\ pc[r] # "trap"
        /\ pc[r] = "done" => b[r] = 15 /\ a[r] = 90 /\ ret[r] = 105

C1_Witness == \E r \in Runs : pc[r] = "done" /\ ret[r] = 105

\* C2, as stated: for every int x, local_f(x) returns 3 * x.
C2_Original ==
    \A r \in Runs :
        CalledAlone(r, "local_f") =>
            pc[r] = "caller" /\ IsProduct(rv[r], 3, param[r])

\* C2, amended: for every int x whose triple is an int, local_f(x) returns
\* 3 * x; local_f(5) returns 15.
C2_Triples ==
    \A r \in Runs :
        CalledAlone(r, "local_f") /\ InRangeMul(param[r], 3) =>
            /\ pc[r] = "caller"
            /\ rv[r] = 3 * param[r]
            /\ param[r] = 5 => rv[r] = 15

C2_Witness ==
    \E r \in Runs :
        /\ CalledAlone(r, "local_f")
        /\ param[r] = IntMax \div 3
        /\ pc[r] = "caller"

\* C3, as stated: for every int x, global_f(x) returns 6 * x.
C3_Original ==
    \A r \in Runs :
        CalledAlone(r, "global_f") =>
            pc[r] = "caller" /\ IsProduct(rv[r], 6, param[r])

\* C3, amended: for every int x whose sixfold is an int, global_f(x) returns
\* 6 * x; global_f(15) returns 90.
C3_Sixfold ==
    \A r \in Runs :
        CalledAlone(r, "global_f") /\ InRangeMul(param[r], 6) =>
            /\ pc[r] = "caller"
            /\ rv[r] = 6 * param[r]
            /\ param[r] = 15 => rv[r] = 90

C3_Witness ==
    \E r \in Runs :
        /\ CalledAlone(r, "global_f")
        /\ param[r] = (IntMin + 5) \div 6
        /\ pc[r] = "caller"

\* C4: in main no operation overflows, and every value computed (a and b
\* once assigned, both products, the sum) lies in -32768..32767.
C4_NoOverflow ==
    \A r \in Runs :
        /\ pc[r] # "trap"
        /\ pc[r] # "l13" => Int16(a[r])
        /\ pc[r] \notin {"l13", "l14"} => Int16(b[r])
        /\ pc[r] = "local_f" =>
              InRangeMul(param[r], 3) /\ Int16(3 * param[r])
        /\ pc[r] = "global_f" =>
              InRangeMul(param[r], 6) /\ Int16(6 * param[r])
        /\ pc[r] = "l19" => InRangeAdd(a[r], b[r]) /\ Int16(a[r] + b[r])
        /\ pc[r] = "done" => Int16(ret[r])
        /\ \A i \in 1 .. Len(calls[r]) :
              ~calls[r][i].trap /\ Int16(calls[r][i].res)

C4_Witness ==
    \E r \in Runs :
        pc[r] = "done" /\ Len(calls[r]) = 2 /\ ret[r] = a[r] + b[r]

\* C5: a call changes no variable of main but the one assigned the result:
\* from the call of local_f to the assignment to b, a keeps its value; from
\* the call of global_f to the assignment to a, b keeps its value; a
\* function body changes neither a nor b nor its own parameter.
C5_NoSideEffects ==
    [][\A r \in Runs :
        /\ pc[r] \in {"l16", "local_f", "l16r"} => a'[r] = a[r]
        /\ pc[r] \in {"l17", "global_f", "l17r"} => b'[r] = b[r]
        /\ pc[r] \in {"l16", "local_f", "l17", "global_f"} =>
              a'[r] = a[r] /\ b'[r] = b[r]
        /\ pc[r] \in {"local_f", "global_f"} => param'[r] = param[r]]_vars

C5_Witness ==
    \E r \in Runs :
        /\ pc[r] = "l19"
        /\ b[r] = calls[r][1].res
        /\ a[r] = calls[r][2].res
        /\ a[r] # b[r]

\* C6: local_f is called once, first, with a; global_f is called once,
\* second, with local_f's result; main returns the sum of the two results.
C6_CallOrder ==
    \A r \in Runs :
        /\ Len(calls[r]) <= 2
        /\ Len(calls[r]) >= 1 =>
              calls[r][1].fn = "local_f" /\ calls[r][1].arg = initA
        /\ Len(calls[r]) = 2 =>
              /\ calls[r][2].fn = "global_f"
              /\ calls[r][2].arg = calls[r][1].res
        /\ pc[r] = "done" =>
              /\ Len(calls[r]) = 2
              /\ ret[r] = calls[r][2].res + calls[r][1].res

C6_Witness ==
    \E r \in Runs :
        pc[r] = "done" /\ Len(calls[r]) = 2 /\ calls[r][2].arg = 15

\* C7: two runs of main at the same statement agree on every variable that
\* has been assigned, on the calls made and on the value returned.
C7_Deterministic ==
    \A r1, r2 \in Runs :
        pc[r1] = pc[r2] =>
            /\ pc[r1] # "trap"
            /\ pc[r1] # "l13" => a[r1] = a[r2]
            /\ pc[r1] \notin {"l13", "l14"} => b[r1] = b[r2]
            /\ param[r1] = param[r2]
            /\ rv[r1] = rv[r2]
            /\ calls[r1] = calls[r2]
            /\ ret[r1] = ret[r2]

C7_Witness ==
    /\ Cardinality(Runs) = 2
    /\ \A r \in Runs : pc[r] = "done"

\* C8: every run of main reaches its return statement.
C8_Terminates == <>(\A r \in Runs : pc[r] = "done")

C8_Witness == \E r \in Runs : pc[r] = "done" /\ ra[r] = "l17r"

\* What main returns when it returns, as a function of the literal assigned
\* to a alone.
MainResult(x) == WrapAdd(WrapMul(WrapMul(x, 3), 6), WrapMul(x, 3))

\* C9: whatever literal b is first assigned, b holds local_f's result
\* wherever it is read, the first call is passed a, and the value returned
\* is decided by the literal assigned to a alone: 105 for 5.
C9_InitialBDead ==
    \A r \in Runs :
        /\ Len(calls[r]) >= 1 => calls[r][1].arg = initA
        /\ pc[r] \in {"l17", "global_f", "l17r", "l19", "done"} =>
              b[r] = calls[r][1].res
        /\ pc[r] = "done" => ret[r] = MainResult(initA)
        /\ pc[r] = "done" /\ initA = 5 => ret[r] = 105

C9_Witness ==
    \E r \in Runs :
        pc[r] = "done" /\ initA = 5 /\ initB # 7 /\ ret[r] = 105

\* No operation of main overflows when a is first assigned x.
NoOverflow(x) ==
    /\ InRangeMul(x, 3)
    /\ InRangeMul(3 * x, 6)
    /\ InRangeAdd(18 * x, 3 * x)

\* C10: when a is first assigned an x for which nothing overflows, main
\* does not trap and returns global_f(local_f(x)) + local_f(x) = 21 * x,
\* and global_f(x) = 2 * local_f(x).
C10_TwentyOneFold ==
    \A r \in Runs :
        NoOverflow(initA) =>
            /\ pc[r] # "trap"
            /\ pc[r] = "done" =>
                  /\ calls[r][1].res = 3 * initA
                  /\ calls[r][2].res = 18 * initA
                  /\ ret[r] = calls[r][2].res + calls[r][1].res
                  /\ ret[r] = 21 * initA
            /\ \A g \in global_f(initA), l \in local_f(initA) :
                  ~g.trap /\ ~l.trap /\ g.val = 2 * l.val

C10_Witness ==
    \E r \in Runs :
        pc[r] = "done" /\ initA = IntMax \div 21 /\ ret[r] = 21 * initA

====
